---- MODULE Spec2Model ----
(***************************************************************************)
(* A state-machine model of the salte-auth controller (src/src/salte-auth.js): *)
(* the login / logout / refresh / token-retrieval flows, the registry of   *)
(* in-flight promises ($promises), the renewal timers ($timeouts) and the  *)
(* event bus ($fire).                                                      *)
(*                                                                         *)
(* JavaScript runs one task at a time.  Every action below is one task     *)
(* (an API call of the application, a transport settling, a timer firing,  *)
(* a visibility change) together with the promise reactions (microtasks)   *)
(* it sets off: these are queued first-in first-out in `jobs` and run to   *)
(* completion before the next task starts.                                 *)
(*                                                                         *)
(* A handler is a sequence of statements, so each JavaScript function is   *)
(* an operator from a controller state (a record with the fields of St)    *)
(* to a controller state, and an action commits the state its handler      *)
(* ends in.  `d_x` stands for the source's `$x`, `dd_x` for `$$x`.          *)
(***************************************************************************)
EXTENDS Integers, Sequences, FiniteSets, TLC

(* ---------------------------------------------------------------- bounds *)
MaxHandles == 2     \* promises alive at once in one category
MaxTimers == 4      \* timers armed at once
MaxUuid == 6        \* states (and nonces) of different age held at once
MaxCalls == 2       \* calls and visibility changes the application makes
MaxRegs == 2        \* calls of on and off the application makes

(* ------------------------------------------------------ program constants *)
autoRefreshBuffer == 60000

Tick == autoRefreshBuffer          \* the clock advances in steps of one buffer
Lifetimes == {60, 120}             \* seconds an issued id token lives
ExpiresIn == 120                   \* seconds an issued access token lives

NULL == 0                          \* null, and an empty slot of $promises
Undefined == -1                    \* a key never assigned
Forged == MaxUuid + 1              \* a state / nonce the controller never generated
Stale == MaxTimers + 1             \* the id of a timer that has run or was cleared

\* Date.now(), in milliseconds.  The program only uses differences between
\* the clock and the times it has stored, so time is measured from the
\* present: when time passes, every stored time moves towards the past.
now == 0

VARIABLES
  config,      \* this.$config
  hidden,      \* this.$utilities.$hidden (document.hidden)
  page,        \* "normal", "landing" (a redirect landing), and once $navigate
               \* was called "navigating" (from a normal page) or "returning"
  promises,    \* this.$promises
  timeouts,    \* this.$timeouts
  listeners,   \* this.$listeners
  profile,     \* this.profile (kept in storage)
  timers,      \* the window's armed timers, in creation order
  handles,     \* the promises the controller has created
  transports,  \* iframes, popups and tabs that are open
  obs,         \* what the last step did: its call, return value and events
  calls,       \* how many calls and visibility changes there have been
  regs         \* how many calls of on and off there have been

vars == <<config, hidden, page, promises, timeouts, listeners, profile,
          timers, handles, transports, obs, calls, regs>>

Categories == <<"login", "logout", "refresh", "token">>
HandleIds == 1..(4 * MaxHandles)
\* The handles of one category of $promises.
Pool(c) == {h \in HandleIds : Categories[((h - 1) \div MaxHandles) + 1] = c}
TimerIds == 1..MaxTimers
Uuids == 1..MaxUuid

Max(a, b) == IF a >= b THEN a ELSE b
MinOf(S) == CHOOSE x \in S : \A y \in S : x <= y

(* ------------------------------------------------------- Session Profile *)
(* salte-auth.profile.js is not among the source files: the profile is     *)
(* modelled from the specification (sections 3 and 4.1).                   *)

NoToken == [present |-> FALSE, nonce |-> 0, exp |-> 0, aud |-> TRUE, azp |-> "absent"]

NoResponse == [state |-> 0, idToken |-> NoToken, accessToken |-> FALSE,
               code |-> FALSE, error |-> FALSE]

EmptyProfile ==
  [localState |-> 0, nonce |-> 0, state |-> 0, idToken |-> NoToken,
   accessToken |-> FALSE, expiration |-> 0, code |-> FALSE, error |-> FALSE,
   redirectUrl |-> FALSE, actionState |-> 0, action |-> "none"]

\* profile.$clear(): every credential and correlation value is dropped.
d_clear(p) ==
  [p EXCEPT !.localState = 0, !.nonce = 0, !.state = 0, !.idToken = NoToken,
            !.accessToken = FALSE, !.expiration = 0, !.code = FALSE,
            !.error = FALSE]

\* profile.$clearErrors(): only the stored provider error is dropped.
d_clearErrors(p) == [p EXCEPT !.error = FALSE]

\* profile.$parseParams(): the parameters of the response are stored.
d_parseParams(p, r) ==
  [p EXCEPT !.state = r.state,
            !.idToken = IF r.idToken.present THEN r.idToken ELSE @,
            !.accessToken = IF r.accessToken THEN TRUE ELSE @,
            !.expiration = IF r.accessToken THEN now + ExpiresIn * 1000 ELSE @,
            !.code = IF r.code THEN TRUE ELSE @,
            !.error = IF r.error THEN TRUE ELSE @]

\* profile.idTokenExpired / profile.accessTokenExpired
idTokenExpired(p) == ~p.idToken.present \/ p.idToken.exp * 1000 <= now
accessTokenExpired(p) == ~p.accessToken \/ p.expiration <= now

\* profile.$validate(isRefresh): the first failed check, or "none".
d_validate(p, isRefresh) ==
  IF p.error THEN "provider_error"
  ELSE IF config.validation.state /\ p.state # p.localState THEN "invalid_state"
  ELSE IF config.responseType = "code"
    THEN (IF p.code THEN "none" ELSE "login_canceled")
  ELSE IF ~p.idToken.present
    THEN (IF isRefresh /\ p.accessToken THEN "none" ELSE "login_canceled")
  ELSE IF config.validation.nonce /\ p.idToken.nonce # p.nonce THEN "invalid_nonce"
  ELSE IF ~p.idToken.aud THEN "invalid_aud"
  ELSE IF p.idToken.azp = "bad" THEN "invalid_azp"
  ELSE IF p.idToken.exp * 1000 <= now THEN "expired"
  ELSE "none"

\* profile.code || profile.userInfo: what a login resolves with.
LoginResponse(p) ==
  IF p.code THEN "code" ELSE IF p.idToken.present THEN "user" ELSE "none"

(* ------------------------------------------------------ controller state *)
\* Nothing has been observed of a step yet.
NoObs ==
  [op |-> "none", ret |-> NULL, retErr |-> "none", events |-> <<>>,
   settled |-> <<>>, opened |-> <<>>, armed |-> <<>>, cancelled |-> 0,
   navigated |-> 0, resp |-> NoResponse, invalid |-> "none",
   reported |-> FALSE, uncaught |-> "none", invoked |-> <<>>,
   args |-> <<>>, used |-> [state |-> 0, nonce |-> 0]]

St ==
  [promises |-> promises, timeouts |-> timeouts, listeners |-> listeners,
   profile |-> profile, timers |-> timers, jobs |-> <<>>, handles |-> handles,
   transports |-> transports, page |-> page,
   obs |-> NoObs, ret |-> NULL, retErr |-> "none", exc |-> "none", ok |-> TRUE]

FreeHandle ==
  [status |-> "free", value |-> "none", kind |-> "none", events |-> FALSE,
   waiters |-> <<>>]

FreeHandles(s, c) == {h \in Pool(c) : s.handles[h].status = "free"}

\* uuid.v4() never returns a value twice and the program only compares the
\* values, so a state or a nonce is known by its age: 1 is the one generated
\* last, and a new one makes every other one older.
Older(v) == IF v \in Uuids THEN v + 1 ELSE v

HeldStates(s) ==
  ({s.profile.localState, s.profile.state, s.profile.actionState}
   \cup {t.reqState : t \in s.transports}
   \cup {s.jobs[i].resp.state : i \in 1..Len(s.jobs)}) \cap Uuids

HeldNonces(s) ==
  ({s.profile.nonce, s.profile.idToken.nonce}
   \cup {t.reqNonce : t \in s.transports}
   \cup {s.jobs[i].resp.idToken.nonce : i \in 1..Len(s.jobs)}) \cap Uuids

\* The age of v among the values S still held.
Rank(S, v) == IF v \in S THEN Cardinality({u \in S : u <= v}) ELSE v

UsedTimers(s) ==
  ({s.timers[i].id : i \in 1..Len(s.timers)}
   \cup {s.timeouts.refresh, s.timeouts.expired}) \cap TimerIds

FreeTimers(s) == TimerIds \ UsedTimers(s)

(* --------------------------------------------------------------- promises *)
Job(type, h, status, val, resp) ==
  [type |-> type, h |-> h, status |-> status, val |-> val, resp |-> resp]

\* new Promise(...): the smallest handle of the category that is free.
NewPromise(s, c, kind, events) ==
  IF FreeHandles(s, c) = {} THEN [s EXCEPT !.ok = FALSE, !.ret = NULL]
  ELSE LET h == MinOf(FreeHandles(s, c))
       IN [s EXCEPT !.handles[h] = [status |-> "pending", value |-> "none",
                                    kind |-> kind, events |-> events,
                                    waiters |-> <<>>],
                    !.ret = h]

\* promise.then(...) / promise.catch(...): the reaction w runs once h settles.
Then(s, h, w) ==
  IF s.handles[h].status = "pending"
    THEN [s EXCEPT !.handles[h].waiters = Append(@, w)]
    ELSE [s EXCEPT !.jobs = Append(@, Job(w.type, w.h, s.handles[h].status,
                                          s.handles[h].value, NoResponse))]

\* The promise h settles: its reactions are queued in registration order.
Settle(s, h, status, val) ==
  LET ws == s.handles[h].waiters
      js == [i \in 1..Len(ws) |-> Job(ws[i].type, ws[i].h, status, val, NoResponse)]
  IN [s EXCEPT !.handles[h].status = status,
               !.handles[h].value = val,
               !.handles[h].waiters = <<>>,
               !.jobs = @ \o js,
               !.obs.settled = Append(@, [h |-> h, kind |-> s.handles[h].kind,
                                          status |-> status, val |-> val])]

\* A .then callback has run for the promise h: what it throws is handed to
\* the .catch callback that follows it, else h is resolved with val.
Returned(s, h, val, catch) ==
  IF s.exc # "none"
    THEN [s EXCEPT !.exc = "none",
                   !.jobs = Append(@, Job(catch, h, "rejected", s.exc, NoResponse))]
    ELSE Settle(s, h, "resolved", val)

\* A .catch callback that rethrows has run for the promise h: h is rejected
\* with what the callback threw before that, else with the error rethrown.
Rethrown(s, h, error) ==
  IF s.exc # "none"
    THEN Settle([s EXCEPT !.exc = "none"], h, "rejected", s.exc)
    ELSE Settle(s, h, "rejected", error)

\* promise.then(...) / promise.catch(...) on the promise the call before has
\* returned.
ThenReturned(s, w) == Then(s, s.ret, w)

\* A settled promise nothing refers to any more is forgotten.
Collect(s) ==
  [h \in HandleIds |->
     IF /\ s.handles[h].status \in {"resolved", "rejected"}
        /\ h \notin {s.promises.login, s.promises.logout,
                     s.promises.refresh, s.promises.token}
     THEN FreeHandle ELSE s.handles[h]]

(* ----------------------------------------------------------------- timers *)
\* clearTimeout(id)
clearTimeout(s, id) ==
  [s EXCEPT !.timers = SelectSeq(@, LAMBDA t : t.id # id),
            !.obs.cancelled = @ + Len(SelectSeq(s.timers, LAMBDA t : t.id = id))]

\* this.$timeouts[kind] = setTimeout(callback, delay)
setTimeout(s, kind, delay) ==
  IF FreeTimers(s) = {} THEN [s EXCEPT !.ok = FALSE]
  ELSE LET id == MinOf(FreeTimers(s))
       IN [s EXCEPT !.timers = Append(@, [id |-> id, kind |-> kind,
                                          due |-> now + delay]),
                    !.timeouts[kind] = id,
                    !.obs.armed = Append(@, [kind |-> kind, delay |-> delay])]

\* A $$refreshToken() that arms the timeouts without clearing the old ones.
dd_refreshToken_noClear(s) ==
  IF ~s.profile.idToken.present
    THEN [s EXCEPT !.exc = "TypeError"]
    ELSE LET timeToExpiration == (s.profile.idToken.exp * 1000) - now
             s3 == setTimeout(s, "refresh",
                              Max(timeToExpiration - config.autoRefreshBuffer, 0))
         IN setTimeout(s3, "expired", Max(timeToExpiration, 0))

\* A $$refreshToken() that forgets the buffer.
dd_refreshToken_noBuffer(s) ==
  LET Cleared(v, kind) ==
        IF v.timeouts[kind] # Undefined THEN clearTimeout(v, v.timeouts[kind]) ELSE v
      Arm(s2) ==
        IF ~s2.profile.idToken.present
          THEN [s2 EXCEPT !.exc = "TypeError"]
          ELSE LET timeToExpiration == (s2.profile.idToken.exp * 1000) - now
               IN setTimeout(setTimeout(s2, "refresh", Max(timeToExpiration, 0)),
                             "expired", Max(timeToExpiration, 0))
  IN Arm(Cleared(Cleared(s, "refresh"), "expired"))

\* $$refreshToken(): registers the refresh and the expired timeout.
dd_refreshToken(s) ==
  LET Cleared(v, kind) ==                        \* lines 702-708
        IF v.timeouts[kind] # Undefined THEN clearTimeout(v, v.timeouts[kind]) ELSE v
      Arm(s2) ==
        IF ~s2.profile.idToken.present
          THEN [s2 EXCEPT !.exc = "TypeError"]   \* userInfo is null: .exp throws
          ELSE LET timeToExpiration == (s2.profile.idToken.exp * 1000) - now
               IN setTimeout(setTimeout(s2, "refresh",
                                        Max(timeToExpiration
                                            - config.autoRefreshBuffer, 0)),
                             "expired", Max(timeToExpiration, 0))
  IN Arm(Cleared(Cleared(s, "refresh"), "expired"))

(* -------------------------------------------------------------- event bus *)
\* The kinds of event, and the callbacks of the application: one that only
\* returns, one that throws and one that deregisters itself.
EventTypes == {"login", "logout", "refresh", "expired"}
Functions == {"plain", "throws", "offSelf"}

\* Array.prototype.indexOf, counted from 0: -1 when x is not an element.
indexOf(a, x) ==
  IF \E i \in 1..Len(a) : a[i] = x
    THEN (CHOOSE i \in 1..Len(a) : a[i] = x /\ \A k \in 1..(i - 1) : a[k] # x) - 1
    ELSE -1

\* Array.prototype.splice(index, 1): a negative index counts from the end.
splice(a, index) ==
  LET start == IF index < 0 THEN Max(Len(a) + index, 0) ELSE index
  IN [i \in 1..(Len(a) - (IF start < Len(a) THEN 1 ELSE 0)) |->
        IF i <= start THEN a[i] ELSE a[i + 1]]

\* An on() that checks neither the event type nor the callback.
d_on_unchecked(s, eventType, callback) ==
  IF eventType \notin EventTypes THEN s
  ELSE [s EXCEPT !.listeners[eventType] = Append(@, callback)]

\* on(eventType, callback): lines 335-344
d_on(s, eventType, callback) ==
  IF eventType \notin EventTypes THEN [s EXCEPT !.exc = "ReferenceError"]
  ELSE IF callback \notin Functions THEN [s EXCEPT !.exc = "ReferenceError"]
  ELSE [s EXCEPT !.listeners[eventType] = Append(@, callback)]

\* An off() that removes the listener registered first.
d_off_first(s, eventType, callback) ==
  IF eventType \notin EventTypes THEN [s EXCEPT !.exc = "ReferenceError"]
  ELSE IF callback \notin Functions THEN [s EXCEPT !.exc = "ReferenceError"]
  ELSE IF s.listeners[eventType] = <<>> THEN s
  ELSE [s EXCEPT !.listeners[eventType] = Tail(@)]

\* off(eventType, callback): lines 358-370
d_off(s, eventType, callback) ==
  IF eventType \notin EventTypes THEN [s EXCEPT !.exc = "ReferenceError"]
  ELSE IF callback \notin Functions THEN [s EXCEPT !.exc = "ReferenceError"]
  ELSE LET eventListeners == s.listeners[eventType]
       IN IF eventListeners = <<>> THEN s
          ELSE [s EXCEPT !.listeners[eventType] =
                           splice(@, indexOf(eventListeners, callback))]

\* Listeners that renew the timeouts whether or not there was an error.
Invoke_alwaysRenews(s, eventType, listener, error, data) ==
  CASE listener = "renewOnLogin" -> dd_refreshToken(s)
    [] listener = "renewOnRefresh" -> dd_refreshToken(s)
    [] listener = "cancelOnLogout" -> clearTimeout(s, s.timeouts.refresh)
    [] OTHER -> s

\* One listener is invoked with (error, data).
Invoke(s, eventType, listener, error, data) ==
  CASE listener = "renewOnLogin" ->                     \* lines 194-198
         IF error # "none" THEN s ELSE dd_refreshToken(s)
    [] listener = "renewOnRefresh" ->                   \* lines 200-204
         IF error # "none" THEN s ELSE dd_refreshToken(s)
    [] listener = "cancelOnLogout" ->                   \* lines 206-208
         clearTimeout(s, s.timeouts.refresh)
    [] listener = "throws" -> [s EXCEPT !.exc = "Error"]
    [] listener = "offSelf" -> d_off(s, eventType, "offSelf")
    [] OTHER -> s

\* The callback of forEach at index i: an index the array no longer has is
\* passed over, and nothing more is called once a listener has thrown.
Visit(s, eventType, i, error, data) ==
  IF s.exc # "none" \/ i > Len(s.listeners[eventType]) THEN s
  ELSE LET listener == s.listeners[eventType][i]
       IN Invoke([s EXCEPT !.obs.invoked =
                    Append(@, [event |-> Len(s.obs.events), listener |-> listener,
                               error |-> error, data |-> data])],
                 eventType, listener, error, data)

\* eventListeners.forEach(listener => listener(error, data)): the indices
\* below the length n the array had at the start are visited in order.
RECURSIVE forEach(_, _, _, _, _, _)
forEach(s, eventType, i, n, error, data) ==
  IF i > n THEN s
  ELSE forEach(Visit(s, eventType, i, error, data), eventType, i + 1, n, error, data)

\* $fire(eventType, error, data): lines 379-390.  The window event comes
\* first; `registered` are the listeners of the kind at that moment.
d_fire(s, eventType, error, data) ==
  LET s1 == [s EXCEPT !.obs.events =
               Append(@, [kind |-> eventType, error |-> error, data |-> data,
                          slots |-> s.promises,
                          registered |-> s.listeners[eventType]])]
  IN forEach(s1, eventType, 1, Len(s1.listeners[eventType]), error, data)

(* ------------------------------------------------------------- transports *)
\* $loginUrl(refresh) / $accessTokenUrl: a new state and a new nonce.
d_loginUrl(s) ==
  IF MaxUuid \in HeldStates(s) \cup HeldNonces(s) THEN [s EXCEPT !.ok = FALSE]
  ELSE [s EXCEPT
          !.profile.localState = 1,
          !.profile.nonce = 1,
          !.profile.state = Older(@),
          !.profile.actionState = Older(@),
          !.profile.idToken.nonce = Older(@),
          !.obs.used.state = Older(@),
          !.obs.used.nonce = Older(@),
          !.transports = {[t EXCEPT !.reqState = Older(@), !.reqNonce = Older(@)] :
                            t \in @},
          !.jobs = [i \in 1..Len(@) |->
                      [@[i] EXCEPT !.resp.state = Older(@),
                                   !.resp.idToken.nonce = Older(@)]]]

\* createIframe / openPopup / openNewTab: the transport is opened for the
\* promise `owner`; an authorization url carries the state and the nonce.
Open(s, kind, purpose, owner, timed) ==
  [s EXCEPT !.transports = @ \cup
     {[kind |-> kind, purpose |-> purpose, owner |-> owner, timed |-> timed,
       reqState |-> IF purpose = "logout" THEN 0 ELSE s.profile.localState,
       reqNonce |-> IF purpose = "logout" THEN 0 ELSE s.profile.nonce]},
            !.obs.opened = Append(@, purpose)]

(* ------------------------------------------------------------ login flows *)
\* A renewal that clears the profile as an interactive login does.
LoginConfig_clearsAll(c) ==
  IF c = "refresh"
    THEN [noPrompt |-> TRUE, clear |-> "all", events |-> FALSE, timeout |-> TRUE]
    ELSE [noPrompt |-> FALSE, clear |-> "all", events |-> TRUE, timeout |-> FALSE]

\* lines 410-423: the LoginConfig of loginWithIframe(config)
LoginConfig(c) ==
  IF c = "refresh"      \* loginWithIframe(true)
    THEN [noPrompt |-> TRUE, clear |-> "errors", events |-> FALSE, timeout |-> TRUE]
    ELSE [noPrompt |-> FALSE, clear |-> "all", events |-> TRUE, timeout |-> FALSE]

loginWithIframe(s, c) ==
  IF s.promises.login # NULL THEN [s EXCEPT !.ret = s.promises.login]
  ELSE LET lc == LoginConfig(c)
           s1 == IF lc.clear = "all" THEN [s EXCEPT !.profile = d_clear(@)]
                 ELSE IF lc.clear = "errors" THEN [s EXCEPT !.profile = d_clearErrors(@)]
                 ELSE s
           Start(s2) == [Open(s2, "iframe", "login", s2.ret, lc.timeout)
                           EXCEPT !.promises.login = s2.ret]
       IN Start(NewPromise(d_loginUrl(s1), "login", "iframe", lc.events))

\* A login through a window that starts a flow whether or not one is pending.
loginWithWindow_unguarded(s, kind) ==
  LET s1 == [s EXCEPT !.profile = d_clear(@)]
      Start(s2) == [Open(s2, kind, "login", s2.ret, FALSE)
                      EXCEPT !.promises.login = s2.ret]
  IN Start(NewPromise(d_loginUrl(s1), "login", kind, TRUE))

\* loginWithPopup() and loginWithNewTab() differ in the transport only.
loginWithWindow(s, kind) ==
  IF s.promises.login # NULL THEN [s EXCEPT !.ret = s.promises.login]
  ELSE LET s1 == [s EXCEPT !.profile = d_clear(@)]
           Start(s2) == [Open(s2, kind, "login", s2.ret, FALSE)
                           EXCEPT !.promises.login = s2.ret]
       IN Start(NewPromise(d_loginUrl(s1), "login", kind, TRUE))

\* openPopup and openNewTab open a window the user may close.
loginWithPopup(s) == loginWithWindow(s, "window")
loginWithNewTab(s) == loginWithWindow(s, "window")

\* profile.$validate() is about to check a response against the localState
\* and the nonce stored now.
Validating(s) ==
  [s EXCEPT !.obs.used = [state |-> s.profile.localState, nonce |-> s.profile.nonce]]

\* The .then callback of a login: lines 431-443, 472-484, 511-523.
LoginThen(s, j) ==
  LET kind == s.handles[j.h].kind
      s1 == Validating([s EXCEPT !.promises.login = NULL])
      s2 == IF kind = "iframe" THEN s1
            ELSE [s1 EXCEPT !.profile = d_parseParams(@, j.resp)]
      error == d_validate(s2.profile, FALSE)
  IN IF error # "none"
       THEN LET s3 == IF kind = "iframe" THEN s2
                      ELSE [s2 EXCEPT !.profile = d_clear(@)]
            IN [s3 EXCEPT !.jobs = Append(@, Job("loginCatch", j.h, "rejected",
                                                 error, NoResponse)),
                          !.obs.invalid = error]
       ELSE LET response == LoginResponse(s2.profile)
            IN Returned(IF s2.handles[j.h].events
                          THEN d_fire(s2, "login", "none", response) ELSE s2,
                        j.h, response, "loginCatch")

\* A .catch callback of a login that leaves the slot as it is.
LoginCatch_noReset(s, j) ==
  Rethrown(IF s.handles[j.h].events THEN d_fire(s, "login", j.val, "none") ELSE s,
           j.h, j.val)

\* The .catch callback of a login: lines 444-450, 485-489, 524-528.
LoginCatch(s, j) ==
  LET s1 == [s EXCEPT !.promises.login = NULL]
  IN Rethrown(IF s1.handles[j.h].events THEN d_fire(s1, "login", j.val, "none")
              ELSE s1,
              j.h, j.val)

\* $navigate(url): the page starts to unload.
d_navigate(s) ==
  [s EXCEPT !.page = IF @ \in {"landing", "returning"} THEN "returning"
                     ELSE "navigating",
            !.obs.navigated = @ + 1]

\* A loginWithRedirect() that does not keep its promise in the login slot.
loginWithRedirect_noSlot(s) ==
  IF s.promises.login # NULL THEN [s EXCEPT !.ret = s.promises.login]
  ELSE LET s1 == NewPromise(s, "login", "redirect", TRUE)
           s2 == [s1 EXCEPT !.profile = [d_clear(@) EXCEPT !.redirectUrl = TRUE]]
           s3 == d_loginUrl(s2)
           s4 == [s3 EXCEPT !.profile.actionState = s3.profile.localState,
                            !.profile.action = "login"]
       IN [d_navigate(s4) EXCEPT !.ret = s1.ret]

\* loginWithRedirect(redirectUrl): lines 541-563
loginWithRedirect(s) ==
  IF s.promises.login # NULL THEN [s EXCEPT !.ret = s.promises.login]
  ELSE LET s1 == NewPromise(s, "login", "redirect", TRUE)      \* new Promise(() => {})
           s2 == [s1 EXCEPT !.promises.login = s1.ret,
                            !.profile = [d_clear(@) EXCEPT !.redirectUrl = TRUE]]
           s3 == d_loginUrl(s2)
           s4 == [s3 EXCEPT !.profile.actionState = s3.profile.localState,
                            !.profile.action = "login"]
       IN [d_navigate(s4) EXCEPT !.ret = s1.ret]

(* ----------------------------------------------------------- logout flows *)
\* logoutWithIframe / logoutWithPopup / logoutWithNewTab: lines 576-655
logoutWith(s, kind) ==
  IF s.promises.logout # NULL THEN [s EXCEPT !.ret = s.promises.logout]
  ELSE LET s1 == [s EXCEPT !.profile = d_clear(@)]
           s2 == NewPromise(s1, "logout", kind, TRUE)
       IN [Open(s2, kind, "logout", s2.ret, FALSE) EXCEPT !.promises.logout = s2.ret]

logoutWithIframe(s) == logoutWith(s, "iframe")
logoutWithPopup(s) == logoutWith(s, "window")
logoutWithNewTab(s) == logoutWith(s, "window")

\* logoutWithRedirect(): lines 663-669
logoutWithRedirect(s) ==
  LET s1 == [s EXCEPT !.profile = d_clear(@)]
      s2 == [s1 EXCEPT !.profile.actionState = s1.profile.localState,
                       !.profile.action = "logout"]
  IN [d_navigate(s2) EXCEPT !.ret = NULL]

\* lines 584-586: the .then callback of a logout
LogoutThen(s, j) ==
  Returned(d_fire([s EXCEPT !.promises.logout = NULL], "logout", "none", "none"),
           j.h, "none", "logoutCatch")

\* lines 587-591: the .catch callback of a logout
LogoutCatch(s, j) ==
  Rethrown(d_fire([s EXCEPT !.promises.logout = NULL], "logout", j.val, "none"),
           j.h, j.val)

(* ---------------------------------------------------------------- refresh *)
\* refreshToken(): lines 675-697
refreshToken(s) ==
  IF s.promises.refresh # NULL THEN [s EXCEPT !.ret = s.promises.refresh]
  ELSE LET Chain(s1) ==
             LET s2 == NewPromise(s1, "refresh", "refresh", FALSE)
             IN [Then(s2, s1.ret, [type |-> "refresh", h |-> s2.ret])
                   EXCEPT !.promises.refresh = s2.ret]
       IN Chain(loginWithIframe(s, "refresh"))

\* lines 680-689: the .then callback of refreshToken
RefreshThen(s, j) ==
  LET s1 == Validating([s EXCEPT !.promises.refresh = NULL])
      error == d_validate(s1.profile, TRUE)
  IN IF error # "none"
       THEN [s1 EXCEPT !.jobs = Append(@, Job("refreshCatch", j.h, "rejected",
                                              error, NoResponse))]
       ELSE Returned(d_fire(s1, "refresh", "none", j.val), j.h, j.val,
                     "refreshCatch")

\* lines 690-694: the .catch callback of refreshToken
RefreshCatch(s, j) ==
  Rethrown(d_fire([s EXCEPT !.promises.refresh = NULL], "refresh", j.val, "none"),
           j.h, j.val)

(* -------------------------------------------------------- token retrieval *)
\* line 739: a login is needed before a token can be handed out
LoginNeeded(s) ==
  \/ config.responseType = "code" /\ ~s.profile.code
  \/ config.responseType # "code" /\ idTokenExpired(s.profile)

\* A retrieveAccessToken() that does not look for a pending retrieval.
retrieveAccessToken_unguarded(s) ==
  LET s1 == IF ~LoginNeeded(s) THEN [s EXCEPT !.ret = NULL]
            ELSE loginWithIframe(s, "default")
      s2 == NewPromise(s1, "token", "token", FALSE)
      s3 == IF s1.ret = NULL
              THEN [s2 EXCEPT !.jobs = Append(@, Job("tokenThen", s2.ret, "resolved",
                                                     "none", NoResponse))]
              ELSE Then(s2, s1.ret, [type |-> "tokenThen", h |-> s2.ret])
  IN [s3 EXCEPT !.promises.token = s2.ret]

\* A retrieveAccessToken() that gives up without an error when it cannot log in.
retrieveAccessToken_silent(s) ==
  IF s.promises.token # NULL THEN [s EXCEPT !.ret = s.promises.token]
  ELSE IF LoginNeeded(s) /\ config.loginType \notin {"iframe", "redirect"}
    THEN [s EXCEPT !.ret = NULL]
  ELSE retrieveAccessToken_unguarded(s)

\* retrieveAccessToken(): lines 732-788.  The promise returned is the end of
\* the chain: [login] -> [token step, unless 'code'] -> reset of the slot.
retrieveAccessToken(s) ==
  IF s.promises.token # NULL THEN [s EXCEPT !.ret = s.promises.token]
  ELSE IF LoginNeeded(s) /\ config.loginType = "false" /\ s.promises.login = NULL
    THEN [s EXCEPT !.promises.token = NULL, !.ret = NULL,
                   !.retErr = "ReferenceError"]
  ELSE IF LoginNeeded(s) /\ config.loginType \notin {"iframe", "redirect", "false"}
    THEN [s EXCEPT !.promises.token = NULL, !.ret = NULL,
                   !.retErr = "ReferenceError"]
  ELSE LET Chain(s1) ==
             LET base == s1.ret
                 \* the chain is known by whether this call has started a login flow
                 chain == IF s1.obs.opened # s.obs.opened THEN "tokenOnLogin"
                          ELSE "token"
                 s2 == NewPromise(s1, "token", chain, FALSE)
                 first == IF config.responseType # "code" THEN "tokenThen"
                          ELSE "tokenFinal"
                 s3 == IF base = NULL
                         THEN [s2 EXCEPT !.jobs = Append(@, Job(first, s2.ret, "resolved",
                                                                "none", NoResponse))]
                         ELSE Then(s2, base, [type |-> first, h |-> s2.ret])
             IN [s3 EXCEPT !.promises.token = s2.ret]
       IN Chain(IF ~LoginNeeded(s) THEN [s EXCEPT !.ret = NULL]  \* Promise.resolve()
                ELSE IF config.loginType = "iframe" THEN loginWithIframe(s, "default")
                ELSE IF config.loginType = "redirect" THEN loginWithRedirect(s)
                ELSE [s EXCEPT !.ret = s.promises.login])

\* lines 760-774: once logged in, renew the access token if it has expired
TokenThen(s, j) ==
  IF j.status = "rejected"
    THEN [s EXCEPT !.jobs = Append(@, Job("tokenFinal", j.h, "rejected", j.val,
                                          NoResponse))]
  ELSE LET s1 == [s EXCEPT !.profile = d_clearErrors(@)]
       IN IF accessTokenExpired(s1.profile)
            THEN Open(d_loginUrl(s1), "iframe", "token", j.h, FALSE)  \* $accessTokenUrl
            ELSE [s1 EXCEPT !.jobs = Append(@, Job("tokenFinal", j.h, "resolved",
                                                   "accessToken", NoResponse))]

\* lines 764-771: the renewal iframe has answered
TokenValidate(s, j) ==
  LET error == d_validate(s.profile, TRUE)
      s1 == Validating(s)
  IN IF error # "none"
       THEN [s1 EXCEPT !.jobs = Append(@, Job("tokenFinal", j.h, "rejected", error,
                                              NoResponse))]
       ELSE [s1 EXCEPT !.jobs = Append(@, Job("tokenFinal", j.h, "resolved",
                                              "accessToken", NoResponse))]

\* lines 777-785: the slot is reset whatever the outcome
TokenFinal(s, j) ==
  Settle([s EXCEPT !.promises.token = NULL], j.h, j.status, j.val)

(* ------------------------------------------------------------ route change *)
\* $$onRouteChanged(): lines 794-800, on a route that is secured.  The promise
\* retrieveAccessToken() returns is dropped: one that is rejected already is
\* an unhandled rejection; a pending one may still be handed to the
\* application by a later call, so its rejection is not counted as unhandled.
dd_onRouteChanged(s) ==
  LET Dropped(s1) ==
        [s1 EXCEPT !.ret = NULL, !.retErr = "none",
                   !.obs.uncaught = IF s1.retErr # "none" THEN "unhandledrejection"
                                    ELSE @]
  IN Dropped(retrieveAccessToken(s))

(* ------------------------------------------------------------- visibility *)
\* $$onVisibilityChanged(): lines 806-822
dd_onVisibilityChanged(s, isHidden) ==
  IF idTokenExpired(s.profile) \/ ~config.autoRefresh THEN s
  ELSE IF isHidden
    THEN ThenReturned(refreshToken(s), [type |-> "visThen", h |-> NULL])
    ELSE dd_refreshToken(s)

\* A callback of the eager refresh that leaves the refresh timeout armed.
VisThen_keepsTimer(s, j) ==
  IF j.status = "rejected" THEN [s EXCEPT !.obs.uncaught = "unhandledrejection"]
  ELSE s

\* lines 813-817: after the eager refresh the refresh timeout is dropped
VisThen(s, j) ==
  IF j.status = "rejected" THEN [s EXCEPT !.obs.uncaught = "unhandledrejection"]
  ELSE [clearTimeout(s, s.timeouts.refresh) EXCEPT !.timeouts.refresh = NULL]

\* lines 712-721: the callback of the refresh timeout
RefreshTimeout(s) ==
  IF config.autoRefresh
    THEN ThenReturned(refreshToken(s), [type |-> "timerCatch", h |-> NULL])
    ELSE d_fire(s, "refresh", "none", "none")

\* lines 723-725: the callback of the expired timeout
ExpiredTimeout(s) == d_fire(s, "expired", "none", "none")

(* ------------------------------------------------------------ environment *)
\* What the identity provider may answer on a transport.
IdToken(nonce, life, aud, azp) ==
  [present |-> TRUE, nonce |-> nonce, exp |-> (now \div 1000) + life,
   aud |-> aud, azp |-> azp]

Response(state, idToken, accessToken, code, error) ==
  [state |-> state, idToken |-> idToken, accessToken |-> accessToken,
   code |-> code, error |-> error]

Responses(t) ==
  IF t.purpose = "logout" THEN {NoResponse}
  ELSE IF t.purpose = "token" THEN
    { Response(st, NoToken, a, FALSE, FALSE) : st \in {t.reqState, Forged}, a \in BOOLEAN }
    \cup { Response(t.reqState, NoToken, FALSE, FALSE, TRUE) }
  ELSE IF config.responseType = "code" THEN
    { Response(st, NoToken, FALSE, c, FALSE) : st \in {t.reqState, Forged}, c \in BOOLEAN }
    \cup { Response(t.reqState, NoToken, FALSE, FALSE, TRUE) }
  ELSE
    { Response(t.reqState, IdToken(t.reqNonce, l, TRUE, "absent"), a, FALSE, FALSE) :
        l \in Lifetimes, a \in BOOLEAN }
    \cup { Response(Forged, IdToken(t.reqNonce, 120, TRUE, "absent"), TRUE, FALSE, FALSE),
           Response(t.reqState, IdToken(Forged, 120, TRUE, "absent"), FALSE, FALSE, FALSE),
           Response(t.reqState, IdToken(t.reqNonce, 120, FALSE, "absent"), FALSE, FALSE, FALSE),
           Response(t.reqState, IdToken(t.reqNonce, 120, TRUE, "bad"), FALSE, FALSE, FALSE),
           Response(t.reqState, IdToken(t.reqNonce, 0, TRUE, "absent"), FALSE, FALSE, FALSE),
           Response(t.reqState, NoToken, TRUE, FALSE, FALSE),
           Response(t.reqState, NoToken, FALSE, FALSE, TRUE) }

\* What the redirect brings back: after a logout, nothing.
ReturnResponses ==
  IF profile.action = "logout" THEN {NoResponse}
  ELSE Responses([purpose |-> "login", reqState |-> profile.localState,
                  reqNonce |-> profile.nonce])

\* One Tick later: every stored time is one Tick nearer, or in the past.  A
\* time in the past is only ever found to be in the past, whatever its value.
Elapse(s) ==
  [s EXCEPT !.profile.idToken.exp = Max(@ - (Tick \div 1000), 0),
            !.profile.expiration = Max(@ - Tick, 0),
            !.timers = [i \in 1..Len(@) |-> [@[i] EXCEPT !.due = Max(@ - Tick, 0)]]]

\* A timer runs once it is due and no timer that is due earlier, or as early
\* and armed before it, is waiting.
FirstDue(i) ==
  /\ timers[i].due <= now
  /\ \A k \in 1..Len(timers) :
       k # i => \/ timers[k].due > timers[i].due
                \/ timers[k].due = timers[i].due /\ k > i

Fired(s, i) == [s EXCEPT !.timers = SelectSeq(@, LAMBDA t : t.id # timers[i].id)]


\* The value a validation has used is kept while it is the one stored; once
\* it is not, it is only known to be another one.
Used(S, v, stored) ==
  IF v \in Uuids /\ v # stored THEN Forged ELSE Rank(S, v)

\* Values the program only compares are kept by age, and timer ids by the
\* order the timers were armed in.
Canon(s) ==
  LET S == HeldStates(s)
      N == HeldNonces(s)
      TimerId(v) ==
        IF \E i \in 1..Len(s.timers) : s.timers[i].id = v
          THEN CHOOSE i \in 1..Len(s.timers) : s.timers[i].id = v
          ELSE IF v \in TimerIds THEN Stale ELSE v
  IN [s EXCEPT
        !.profile.localState = Rank(S, @),
        !.profile.state = Rank(S, @),
        !.profile.actionState = Rank(S, @),
        !.profile.nonce = Rank(N, @),
        !.profile.idToken.nonce = Rank(N, @),
        !.obs.used.state = Used(S, @, s.profile.localState),
        !.obs.used.nonce = Used(N, @, s.profile.nonce),
        !.transports = {[t EXCEPT !.reqState = Rank(S, @), !.reqNonce = Rank(N, @)] :
                          t \in @},
        !.timers = [i \in 1..Len(@) |-> [@[i] EXCEPT !.id = i]],
        !.timeouts = [k \in DOMAIN @ |-> TimerId(@[k])]]

(* -------------------------------------------------------------- microtasks *)
\* One promise reaction.
RunJob(s, j) ==
  CASE j.type = "loginThen" -> LoginThen(s, j)
    [] j.type = "loginCatch" -> LoginCatch(s, j)
    [] j.type = "logoutThen" -> LogoutThen(s, j)
    [] j.type = "logoutCatch" -> LogoutCatch(s, j)
    [] j.type = "refresh" ->
         IF j.status = "resolved" THEN RefreshThen(s, j) ELSE RefreshCatch(s, j)
    [] j.type = "refreshCatch" -> RefreshCatch(s, j)
    [] j.type = "tokenThen" -> TokenThen(s, j)
    [] j.type = "tokenValidate" -> TokenValidate(s, j)
    [] j.type = "tokenFinal" -> TokenFinal(s, j)
    [] j.type = "visThen" -> VisThen(s, j)
    [] j.type = "timerCatch" ->              \* console.error(error): lines 716-718
         IF j.status = "rejected" THEN [s EXCEPT !.obs.reported = TRUE] ELSE s

\* The microtask queue is run until it is empty.
RECURSIVE Drain(_)
Drain(s) ==
  IF s.jobs = <<>> THEN s
  ELSE Drain(RunJob([s EXCEPT !.jobs = Tail(@)], Head(s.jobs)))

\* A task: its handler, then the microtasks.  An exception that leaves the
\* handler is reported by the window (an uncaught error).
Task(s) ==
  Canon(Drain([s EXCEPT !.exc = "none",
                        !.obs.uncaught = IF s.exc # "none" THEN s.exc ELSE @]))

(* ---------------------------------------------------------------- actions *)
\* The state a task ends in becomes the next state.
Commit(s, op) ==
  \E e \in {Task([s EXCEPT !.obs.op = op, !.obs.ret = s.ret, !.obs.retErr = s.retErr])} :
     /\ e.ok
     /\ promises' = e.promises
     /\ timeouts' = e.timeouts
     /\ listeners' = e.listeners
     /\ profile' = e.profile
     /\ timers' = e.timers
     /\ handles' = Collect(e)
     /\ transports' = e.transports
     /\ page' = e.page
     /\ obs' = e.obs
     /\ UNCHANGED config

\* The application acts: one of its boundedly many calls.
App == calls < MaxCalls /\ calls' = calls + 1 /\ UNCHANGED regs
\* The environment or the controller itself acts.
Env == UNCHANGED <<calls, regs>>

\* The configurations explored.  State validation is switched off (typedef
\* Validation, line 20) under the default login type and auto refresh only.
Configs ==
  {c \in [responseType : {"id_token", "code"},
          loginType : {"iframe", "redirect", "false", "invalid"},
          autoRefresh : BOOLEAN,
          autoRefreshBuffer : {autoRefreshBuffer},
          validation : [state : BOOLEAN, nonce : {TRUE}]] :
     c.validation.state \/ (c.loginType = "iframe" /\ c.autoRefresh)}

\* this.$promises = {}; this.$timeouts = {}; this.$listeners = {}: lines 75-97
NoPromises == [login |-> NULL, logout |-> NULL, refresh |-> NULL, token |-> NULL]
NoTimeouts == [refresh |-> Undefined, expired |-> Undefined]
NoListeners == [login |-> <<>>, refresh |-> <<>>, logout |-> <<>>, expired |-> <<>>]

\* The listeners the constructor registers on a normal page: lines 194-208
OwnListeners ==
  [login |-> <<"renewOnLogin">>, refresh |-> <<"renewOnRefresh">>,
   logout |-> <<"cancelOnLogout">>, expired |-> <<>>]

\* A page has loaded: a new controller over the stored profile.
NewPage(p, kind, ls) ==
  [promises |-> NoPromises, timeouts |-> NoTimeouts, listeners |-> ls,
   profile |-> p, timers |-> <<>>, jobs |-> <<>>,
   handles |-> [h \in HandleIds |-> FreeHandle],
   transports |-> {}, page |-> kind,
   obs |-> NoObs, ret |-> NULL, retErr |-> "none", exc |-> "none", ok |-> TRUE]

\* constructor, lines 170-219: the page is neither an iframe, a popup nor a
\* redirect landing.
Construct(p) ==
  LET s == NewPage(p, "normal", OwnListeners)
  IN IF ~idTokenExpired(p) THEN dd_refreshToken(s) ELSE s

\* constructor, lines 144-169: the provider has redirected back, and the
\* deferred callback has run.
Landing(p, r) ==
  LET p1 == d_parseParams(p, r)
      error == d_validate(p1, FALSE)
      s == [Validating(NewPage(p1, "landing", NoListeners)) EXCEPT
              !.obs.invalid = error, !.obs.resp = r]
      action == IF p1.state = p1.actionState THEN p1.action ELSE "none"
      s1 == IF error # "none" THEN [s EXCEPT !.profile = d_clear(@)]
            ELSE [d_navigate(s) EXCEPT !.profile.redirectUrl = FALSE]
  IN IF action = "login"
       THEN d_fire(s1, "login", error, LoginResponse(s1.profile))
     ELSE IF action = "logout" THEN d_fire(s1, "logout", error, "none")
     ELSE s1

Init ==
  /\ config \in Configs
  /\ hidden = FALSE
  /\ page = "normal"
  /\ promises = NoPromises
  /\ timeouts = NoTimeouts
  /\ listeners = OwnListeners
  /\ profile = EmptyProfile
  /\ timers = <<>>
  /\ handles = [h \in HandleIds |-> FreeHandle]
  /\ transports = {}
  /\ obs = NoObs
  /\ calls = 0
  /\ regs = 0

\* The listeners of the document and of the window are registered by the
\* constructor of a normal page only: lines 170-216.
Listening == page \in {"normal", "navigating"}

\* The application calls the API.
CallLoginWithIframe ==
  /\ App
  /\ \E c \in {"default", "refresh"} : Commit(loginWithIframe(St, c), "loginWithIframe")
  /\ UNCHANGED hidden

CallLoginWithPopup ==
  App /\ Commit(loginWithPopup(St), "loginWithPopup") /\ UNCHANGED hidden

CallLoginWithNewTab ==
  App /\ Commit(loginWithNewTab(St), "loginWithNewTab") /\ UNCHANGED hidden

CallLoginWithRedirect ==
  App /\ Commit(loginWithRedirect(St), "loginWithRedirect") /\ UNCHANGED hidden

CallLogoutWithIframe ==
  App /\ Commit(logoutWithIframe(St), "logoutWithIframe") /\ UNCHANGED hidden

CallLogoutWithPopup ==
  App /\ Commit(logoutWithPopup(St), "logoutWithPopup") /\ UNCHANGED hidden

CallLogoutWithNewTab ==
  App /\ Commit(logoutWithNewTab(St), "logoutWithNewTab") /\ UNCHANGED hidden

CallLogoutWithRedirect ==
  App /\ Commit(logoutWithRedirect(St), "logoutWithRedirect") /\ UNCHANGED hidden

CallRefreshToken ==
  App /\ Commit(refreshToken(St), "refreshToken") /\ UNCHANGED hidden

\* Also $$onRouteChanged on a secured route, and the interceptors: lines 172-191.
CallRetrieveAccessToken ==
  App /\ Commit(retrieveAccessToken(St), "retrieveAccessToken") /\ UNCHANGED hidden

\* The document becomes hidden or visible.
VisibilityChanged ==
  /\ App
  /\ Listening
  /\ hidden' = ~hidden
  /\ Commit(dd_onVisibilityChanged(St, ~hidden), "visibilitychange")

\* The location changes (a click, popstate) to a route that is secured.
RouteChanged ==
  /\ App
  /\ Listening
  /\ Commit(dd_onRouteChanged(St), "routeChange")
  /\ UNCHANGED hidden

\* The arguments the application passes to on and off.
EventTypeArgs == {"login", "expired", "unknown"}
CallbackArgs == Functions \cup {"notAFunction"}

\* One more call of on or off.
Reg == regs < MaxRegs /\ regs' = regs + 1 /\ UNCHANGED <<calls, hidden>>

CallOn ==
  /\ Reg
  /\ \E eventType \in EventTypeArgs, callback \in CallbackArgs :
       Commit([d_on(St, eventType, callback) EXCEPT
                 !.obs.args = <<eventType, callback>>], "on")

CallOff ==
  /\ Reg
  /\ \E eventType \in EventTypeArgs, callback \in CallbackArgs :
       Commit([d_off(St, eventType, callback) EXCEPT
                 !.obs.args = <<eventType, callback>>], "off")

\* The timers run.
RefreshTimerFires ==
  /\ Env
  /\ \E i \in 1..Len(timers) :
       /\ timers[i].kind = "refresh"
       /\ FirstDue(i)
       /\ \E s \in {Fired(St, i)} :
            \E r \in {RefreshTimeout(s)} : Commit(r, "refreshTimeout")
  /\ UNCHANGED hidden

ExpiredTimerFires ==
  /\ Env
  /\ \E i \in 1..Len(timers) :
       /\ timers[i].kind = "expired"
       /\ FirstDue(i)
       /\ \E s \in {Fired(St, i)} :
            \E r \in {ExpiredTimeout(s)} : Commit(r, "expiredTimeout")
  /\ UNCHANGED hidden

\* Time passes while the page is idle.
ClockTicks ==
  /\ Env
  /\ timers # <<>> \/ profile.idToken.present \/ profile.accessToken
  /\ Commit(Elapse(St), "tick")
  /\ UNCHANGED hidden

\* A transport comes back with the provider's answer.  An iframe is a page of
\* its own: its controller stores the parameters (lines 138-141) before the
\* parent goes on; a window's parameters are read by the opener's callback.
TransportResolves ==
  /\ Env
  /\ \E t \in transports : \E r \in Responses(t) :
       LET s1 == [St EXCEPT !.transports = @ \ {t},
                            !.profile = IF t.kind = "iframe"
                                          THEN d_parseParams(@, r) ELSE @]
           type == CASE t.purpose = "login" -> "loginThen"
                     [] t.purpose = "logout" -> "logoutThen"
                     [] t.purpose = "token" -> "tokenValidate"
       IN Commit([s1 EXCEPT !.jobs = <<Job(type, t.owner, "resolved", "none", r)>>,
                            !.obs.resp = r],
                 "transportResolved")
  /\ UNCHANGED hidden

\* A window is closed by the user; an iframe with a timeout times out.
TransportRejects ==
  /\ Env
  /\ \E t \in transports :
       /\ t.kind = "window" \/ t.timed
       /\ LET s1 == [St EXCEPT !.transports = @ \ {t}]
              type == CASE t.purpose = "login" -> "loginCatch"
                        [] t.purpose = "logout" -> "logoutCatch"
                        [] t.purpose = "token" -> "tokenFinal"
          IN Commit([s1 EXCEPT !.jobs = <<Job(type, t.owner, "rejected",
                                              "transport", NoResponse)>>],
                    "transportRejected")
  /\ UNCHANGED hidden

\* The provider redirects the browser back to the application.
RedirectLands ==
  /\ Env
  /\ page \in {"navigating", "returning"}
  /\ profile.redirectUrl
  /\ \E r \in ReturnResponses : Commit(Landing(profile, r), "redirectLanding")
  /\ UNCHANGED hidden

\* The navigation ends on a page of the application.
PageLoads ==
  /\ Env
  /\ page \in {"navigating", "returning"}
  /\ ~profile.redirectUrl
  /\ Commit(Construct(profile), "pageLoad")
  /\ UNCHANGED hidden

Next ==
  \/ CallLoginWithIframe
  \/ CallLoginWithPopup
  \/ CallLoginWithNewTab
  \/ CallLoginWithRedirect
  \/ CallLogoutWithIframe
  \/ CallLogoutWithPopup
  \/ CallLogoutWithNewTab
  \/ CallLogoutWithRedirect
  \/ CallRefreshToken
  \/ CallRetrieveAccessToken
  \/ VisibilityChanged
  \/ RouteChanged
  \/ RefreshTimerFires
  \/ ExpiredTimerFires
  \/ ClockTicks
  \/ TransportResolves
  \/ TransportRejects
  \/ RedirectLands
  \/ PageLoads

Spec == Init /\ [][Next]_vars

\* The application registers and deregisters listeners around silent logins,
\* under the default login type with auto refresh.
EventNext ==
  \/ CallOn
  \/ CallOff
  \/ CallLoginWithIframe
  \/ RefreshTimerFires
  \/ ExpiredTimerFires
  \/ ClockTicks
  \/ TransportResolves
  \/ TransportRejects

EventInit ==
  /\ Init
  /\ config.responseType = "id_token"
  /\ config.loginType = "iframe"
  /\ config.validation.state
  /\ config.autoRefresh

EventSpec == EventInit /\ [][EventNext]_vars

\* The event loop runs a timer that is due, and time passes: under the default
\* login type, with auto refresh enabled and disabled.
FairInit ==
  /\ Init
  /\ config.responseType = "id_token"
  /\ config.loginType = "iframe"
  /\ config.validation.state

\* The application logs in and out silently and otherwise waits.
FairNext ==
  \/ CallLoginWithIframe
  \/ CallLogoutWithIframe
  \/ RefreshTimerFires
  \/ ExpiredTimerFires
  \/ ClockTicks
  \/ TransportResolves
  \/ TransportRejects

FairSpec ==
  /\ FairInit
  /\ [][FairNext]_vars
  /\ WF_vars(ClockTicks)
  /\ WF_vars(RefreshTimerFires)
  /\ WF_vars(ExpiredTimerFires)

\* The page of the application loads after a login by redirect: the profile
\* in storage is the one loginWithRedirect() and the landing page have left.
Redirecting ==
  [d_clear(EmptyProfile) EXCEPT !.redirectUrl = TRUE, !.localState = 1,
                                !.nonce = 1, !.actionState = 1, !.action = "login"]

SessionInit ==
  /\ config \in Configs
  /\ config.responseType = "id_token"
  /\ config.loginType = "iframe"
  /\ config.validation.state
  /\ hidden = FALSE
  /\ calls = 0
  /\ regs = 0
  /\ \E r \in Responses([purpose |-> "login", reqState |-> 1, reqNonce |-> 1]) :
       \E landed \in {Task(Landing(Redirecting, r))} :
         \E e \in {Task([Construct(landed.profile) EXCEPT !.obs.op = "pageLoad"])} :
           /\ landed.page = "returning"
           /\ ~idTokenExpired(e.profile)
           /\ promises = e.promises
           /\ timeouts = e.timeouts
           /\ listeners = e.listeners
           /\ profile = e.profile
           /\ timers = e.timers
           /\ handles = Collect(e)
           /\ transports = e.transports
           /\ page = e.page
           /\ obs = e.obs

\* The page is hidden and shown while the session is renewed.
SessionNext ==
  \/ VisibilityChanged
  \/ CallRefreshToken
  \/ RefreshTimerFires
  \/ ExpiredTimerFires
  \/ ClockTicks
  \/ TransportResolves
  \/ TransportRejects

SessionSpec == SessionInit /\ [][SessionNext]_vars

(* ----------------------------------------------------------------- claims *)
\* The step was a call of one of the operations `ops` by the application.
Called(ops) == calls' = calls + 1 /\ obs'.op \in ops

LoginCalls ==
  {"loginWithIframe", "loginWithPopup", "loginWithNewTab", "loginWithRedirect"}

LoginTransports == {t \in transports : t.purpose = "login"}

\* C1, first part: a login call made while a login is pending returns the
\* pending handle, opens no transport, does not navigate and leaves the
\* profile (tokens, state and nonce) as it is.
C1_Coalesced ==
  (promises.login # NULL /\ Called(LoginCalls)) =>
     /\ obs'.ret = promises.login
     /\ promises' = promises
     /\ transports' = transports
     /\ obs'.opened = <<>>
     /\ obs'.navigated = 0
     /\ page' = page
     /\ profile' = profile

\* C1: while a login is pending every further login call, of whichever of the
\* four kinds, is coalesced into it, and at most one login transport is open
\* at any time.
C1_LoginCoalescing ==
  [](Cardinality(LoginTransports) <= 1) /\ [][C1_Coalesced]_vars

\* A popup login was asked for while an iframe login was pending, and got the
\* iframe login's handle.
C1_Witness ==
  /\ obs.op = "loginWithPopup"
  /\ obs.ret # NULL
  /\ obs.ret = promises.login
  /\ obs.opened = <<>>
  /\ \E t \in LoginTransports : t.kind = "iframe" /\ t.owner = obs.ret

\* The category of $promises a handle belongs to.
Cat(h) == Categories[((h - 1) \div MaxHandles) + 1]

\* What the last step settled, fired and armed.
SettledNow == {obs.settled[i] : i \in 1..Len(obs.settled)}
EventsNow == {obs.events[i] : i \in 1..Len(obs.events)}
ArmedNow == {obs.armed[i] : i \in 1..Len(obs.armed)}

TokenTransports == {t \in transports : t.purpose = "token"}

\* C2, coalescing: a retrieval asked for while one is pending returns the
\* pending handle and starts nothing.
C2_Coalesced ==
  (promises.token # NULL /\ Called({"retrieveAccessToken"})) =>
     /\ obs'.ret = promises.token
     /\ promises' = promises
     /\ transports' = transports
     /\ obs'.opened = <<>>
     /\ obs'.navigated = 0
     /\ profile' = profile

\* C2, the first call: with no valid token cached and loginType 'iframe' it
\* starts one login flow, unless a login is pending already.
C2_FirstCall ==
  (/\ promises.token = NULL
   /\ Called({"retrieveAccessToken"})
   /\ config.loginType = "iframe"
   /\ LoginNeeded(St)) =>
     /\ obs'.ret # NULL
     /\ obs'.ret = promises'.token
     /\ obs'.opened = IF promises.login = NULL THEN <<"login">> ELSE <<>>

\* C2, the renewal: the retrieval a renewal iframe belongs to ends in the step
\* the iframe answers, so a retrieval opens at most one renewal iframe.
C2_RenewalOnce ==
  /\ (\E i \in 1..Len(obs'.opened) : obs'.opened[i] = "token") =>
        TokenTransports = {} /\ obs'.opened \in {<<"token">>, <<"login", "token">>}
  /\ \A t \in TokenTransports :
        (\A u \in transports' : u.purpose = "token" => u.owner # t.owner) =>
           promises'.token = NULL

\* C2 (amended): every retrieveAccessToken() call made while a retrieval is
\* pending returns the same handle and starts no flow; the first call starts
\* at most one login flow, and the retrieval starts at most one further
\* authorization flow, the access-token renewal iframe, after the login.
C2_OneLoginOneRenewal ==
  /\ [](/\ Cardinality(TokenTransports) <= 1
        /\ \A t \in TokenTransports : t.owner = promises.token)
  /\ [][C2_Coalesced /\ C2_FirstCall /\ C2_RenewalOnce]_vars

\* A second retrieveAccessToken() was coalesced into the retrieval that had
\* started the login iframe.
C2_Witness ==
  /\ obs.op = "retrieveAccessToken"
  /\ calls = 2
  /\ config.loginType = "iframe"
  /\ obs.ret # NULL
  /\ obs.ret = promises.token
  /\ obs.opened = <<>>
  /\ handles[obs.ret].kind = "tokenOnLogin"
  /\ LoginTransports # {}

\* C2 as stated: a retrieval that has started a login flow starts no second
\* authorization flow (exactly one flow in total).
C2_ExactlyOneFlow ==
  \A t \in TokenTransports : handles[t.owner].kind # "tokenOnLogin"

\* C3: a slot of $promises only ever holds a pending operation (it is empty
\* again in the step its flow settles, on success and on failure), and when
\* the login, logout or refresh event of a settling flow is fired the slot
\* of that category is empty already.
C3_SlotReset ==
  /\ \A c \in DOMAIN promises :
        promises[c] # NULL => handles[promises[c]].status = "pending"
  /\ \A x \in SettledNow : promises[Cat(x.h)] # x.h
  /\ \A e \in EventsNow :
        (/\ e.kind \in {"login", "logout", "refresh"}
         /\ \E x \in SettledNow : Cat(x.h) = e.kind) => e.slots[e.kind] = NULL

\* A login failed: its handle was rejected and the login event carried the
\* error, the login slot being empty when the event was fired.
C3_Witness ==
  /\ \E x \in SettledNow : Cat(x.h) = "login" /\ x.status = "rejected"
  /\ \E e \in EventsNow :
        e.kind = "login" /\ e.error # "none" /\ e.slots.login = NULL
  /\ promises.login = NULL

\* C4: when the provider's answer to a login, a refresh or a token renewal
\* carries a state other than the localState generated last, every promise
\* of the flow is rejected and no login or refresh event is fired without an
\* error.
C4_Step ==
  LET xs == {x \in {obs'.settled[i] : i \in 1..Len(obs'.settled)} :
               Cat(x.h) \in {"login", "refresh", "token"}}
  IN (/\ obs'.op = "transportResolved"
      /\ xs # {}
      /\ obs'.resp.state # profile.localState) =>
        /\ \A x \in xs : x.status = "rejected"
        /\ \A i \in 1..Len(obs'.events) :
              obs'.events[i].kind \in {"login", "refresh"} =>
                 obs'.events[i].error # "none"

C4_StateMismatchRejects == [][C4_Step]_vars

ValidationErrors ==
  {"provider_error", "invalid_state", "login_canceled", "invalid_nonce",
   "invalid_aud", "invalid_azp", "expired"}

\* C5: when the validation of a login response fails (in the callback of an
\* iframe, popup or tab login, or on the redirect landing) the profile is
\* cleared, the login event is fired with the validation error, and the
\* promise of the login is rejected with it.
C5_ValidationFailureClears ==
  obs.invalid # "none" =>
    /\ profile = d_clear(profile)
    /\ \E e \in EventsNow : e.kind = "login" /\ e.error = obs.invalid
    /\ \A x \in SettledNow :
          Cat(x.h) = "login" => x.status = "rejected" /\ x.val = obs.invalid

LogoutCalls ==
  {"logoutWithIframe", "logoutWithPopup", "logoutWithNewTab", "logoutWithRedirect"}

\* C6: a logout call leaves no token in the profile, and once a logout has
\* settled no timer is armed.
C6_LogoutCancelsTimers ==
  /\ (obs.op \in LogoutCalls /\ (obs.opened # <<>> \/ obs.navigated > 0)) =>
        ~profile.idToken.present /\ ~profile.accessToken /\ ~profile.code
  /\ (\E x \in SettledNow : Cat(x.h) = "logout") => timers = <<>>

TimersOf(kind) == {i \in 1..Len(timers) : timers[i].kind = kind}

\* C7: at most one refresh timer and one expired timer are armed, and every
\* armed timer is the one $timeouts refers to: none was superseded.
C7_OneTimerEach ==
  /\ Cardinality(TimersOf("refresh")) <= 1
  /\ Cardinality(TimersOf("expired")) <= 1
  /\ \A i \in 1..Len(timers) : timeouts[timers[i].kind] = timers[i].id

\* The timers were armed again, and an earlier timer was cancelled for it.
C7_Witness ==
  /\ obs.cancelled >= 1
  /\ Len(obs.armed) = 2
  /\ Cardinality(TimersOf("refresh")) = 1
  /\ Cardinality(TimersOf("expired")) = 1

\* C8: the refresh timer is armed with max(exp*1000 - now - autoRefreshBuffer, 0)
\* and the expired timer with max(exp*1000 - now, 0); so the refresh timer of
\* an unexpired token runs between expiry - autoRefreshBuffer and expiry, and
\* at once for a token inside the buffer.
C8_Delays ==
  LET timeToExpiration == (profile.idToken.exp * 1000) - now
  IN \A a \in ArmedNow :
       /\ a.kind = "refresh" =>
            /\ a.delay = Max(timeToExpiration - config.autoRefreshBuffer, 0)
            /\ timeToExpiration >= 0 =>
                 /\ a.delay >= timeToExpiration - config.autoRefreshBuffer
                 /\ a.delay <= timeToExpiration
            /\ timeToExpiration <= config.autoRefreshBuffer => a.delay = 0
       /\ a.kind = "expired" => a.delay = Max(timeToExpiration, 0)

\* A token expiring in 120000 ms: the timers are armed at 60000 and 120000.
C8_Witness ==
  /\ profile.idToken.exp * 1000 - now = 120000
  /\ obs.armed = <<[kind |-> "refresh", delay |-> 60000],
                   [kind |-> "expired", delay |-> 120000]>>

ExpiredArmed == TimersOf("expired") # {}

ExpiredEmitted == \E e \in EventsNow : e.kind = "expired"

\* The application calls the controller again, a login or a refresh succeeds,
\* a logout ends, or the page is left.
Intervened ==
  \/ obs.op \in LoginCalls \cup LogoutCalls
  \/ \E e \in EventsNow :
        e.kind \in {"login", "refresh"} /\ e.error = "none" /\ e.data # "none"
  \/ \E e \in EventsNow : e.kind = "logout"
  \/ page # "normal"
  \/ obs.op \in {"pageLoad", "redirectLanding"}

\* C9: once the expired timer is armed, the expired event is emitted unless a
\* logout, a further call of the application or a successful login or
\* refresh comes first, with auto refresh enabled or disabled.
C9_ExpiredEventuallyEmitted == ExpiredArmed ~> (ExpiredEmitted \/ Intervened)

\* The refresh h was started by the refresh timeout: its .catch is waiting.
TimerRefresh(h) ==
  \E i \in 1..Len(handles[h].waiters) : handles[h].waiters[i].type = "timerCatch"

VisibilityRefresh(h) ==
  \E i \in 1..Len(handles[h].waiters) : handles[h].waiters[i].type = "visThen"

\* The timers of the kind, without their ids.
Armed(ts, kind) ==
  {[due |-> ts[i].due] : i \in {k \in 1..Len(ts) : ts[k].kind = kind}}

\* The step has renewed the timers for a new token: a login or a refresh
\* has succeeded in it.
Renewed(evs) ==
  \E i \in 1..Len(evs) : evs[i].kind \in {"login", "refresh"} /\ evs[i].error = "none"

\* C10: when the refresh which the refresh timeout has started fails, the
\* rejection is caught and reported, a refresh event carries the error, and
\* the failure neither cancels nor arms a timer: the expired timer stays armed
\* as it was, unless a login succeeds in the same step and arms it anew.
C10_Step ==
  \A h \in Pool("refresh") :
    (/\ handles[h].status = "pending"
     /\ TimerRefresh(h)
     /\ \E i \in 1..Len(obs'.settled) :
           obs'.settled[i].h = h /\ obs'.settled[i].status = "rejected") =>
       /\ obs'.reported
       /\ ~VisibilityRefresh(h) => obs'.uncaught = "none"
       /\ \E i \in 1..Len(obs'.events) :
             obs'.events[i].kind = "refresh" /\ obs'.events[i].error # "none"
       /\ ~Renewed(obs'.events) =>
             /\ obs'.cancelled = 0
             /\ obs'.armed = <<>>
             /\ Armed(timers', "expired") = Armed(timers, "expired")
       /\ Armed(timers, "expired") # {} => Armed(timers', "expired") # {}

C10_FailedAutoRefreshIsolated == [][C10_Step]_vars

\* An automatic refresh has failed and was reported, and the expired timer
\* is armed.
C10_Witness ==
  /\ obs.reported
  /\ \E e \in EventsNow : e.kind = "refresh" /\ e.error # "none"
  /\ \E x \in SettledNow : Cat(x.h) = "refresh" /\ x.status = "rejected"
  /\ ExpiredArmed
  /\ obs.uncaught = "none"

(* ------------------------------------------------------------ event bus *)
\* The step was a call of on or off by the application.
Registering(op) == regs' = regs + 1 /\ obs'.op = op

ElementsOf(a) == {a[i] : i \in 1..Len(a)}

\* The listeners invoked for the i-th event of the last step, in order.
InvokedFor(i) ==
  LET xs == SelectSeq(obs.invoked, LAMBDA x : x.event = i)
  IN [k \in 1..Len(xs) |-> xs[k].listener]

\* C11: when a listener invoked by $fire throws, every listener registered
\* after it for the kind is still invoked with (error, data).
C11_ThrowDoesNotStopOthers ==
  \A i \in 1..Len(obs.events) :
    LET e == obs.events[i]
    IN \A p \in 1..Len(e.registered) :
         e.registered[p] = "throws" =>
           \A q \in (p + 1)..Len(e.registered) :
             \E k \in 1..Len(obs.invoked) :
               /\ obs.invoked[k].event = i
               /\ obs.invoked[k].listener = e.registered[q]
               /\ obs.invoked[k].error = e.error
               /\ obs.invoked[k].data = e.data

\* C12: when no listener throws, $fire invokes the listeners registered for
\* the kind at that moment once each and in registration order, also when
\* one of them calls off for the kind while it is invoked.
C12_EachListenerOnceInOrder ==
  \A i \in 1..Len(obs.events) :
    "throws" \notin ElementsOf(obs.events[i].registered) =>
       InvokedFor(i) = obs.events[i].registered

\* C13, the call: off(kind, cb) with cb registered once for kind removes it
\* and leaves the other listeners, of this and of every other kind, as they
\* are and in their order.
C13_Step ==
  \A eventType \in EventTypes, callback \in Functions :
    (/\ Registering("off")
     /\ obs'.args = <<eventType, callback>>
     /\ Len(SelectSeq(listeners[eventType], LAMBDA l : l = callback)) = 1) =>
       listeners' = [listeners EXCEPT
                       ![eventType] = SelectSeq(@, LAMBDA l : l # callback)]

C14_Step ==
  (/\ Registering("on") \/ Registering("off")
   /\ obs'.args[1] \notin EventTypes \/ obs'.args[2] \notin Functions) =>
     /\ obs'.uncaught = "ReferenceError"
     /\ listeners' = listeners

C14_BadArgumentsThrow == [][C14_Step]_vars

\* on was called with something that is not a function, and threw.
C14_Witness ==
  /\ obs.op = "on"
  /\ obs.args = <<"login", "notAFunction">>
  /\ obs.uncaught = "ReferenceError"
  /\ listeners = OwnListeners

\* C20: off(kind, cb) with cb not registered for kind leaves the listeners of
\* the kind as they are.
C20_Step ==
  \A eventType \in EventTypes, callback \in Functions :
    (/\ Registering("off")
     /\ obs'.args = <<eventType, callback>>
     /\ callback \notin ElementsOf(listeners[eventType])) =>
       listeners' = listeners

C20_OffOfUnregisteredIsNoOp == [][C20_Step]_vars

(* ------------------------------------------------------- redirect login *)
\* The login slot holds the promise of a login by redirect.
RedirectPending ==
  promises.login # NULL /\ handles[promises.login].kind = "redirect"

\* The page is left: the next page constructs a new controller.
Reloaded == obs'.op \in {"pageLoad", "redirectLanding"}

\* C15, the call: loginWithRedirect() with no login pending navigates once,
\* opens no transport and returns a pending promise kept in the login slot.
C15_Call ==
  (promises.login = NULL /\ Called({"loginWithRedirect"})) =>
     /\ obs'.navigated = 1
     /\ obs'.opened = <<>>
     /\ Cardinality(transports') = Cardinality(transports)
     /\ promises'.login # NULL
     /\ obs'.ret = promises'.login
     /\ handles'[promises'.login].kind = "redirect"
     /\ handles'[promises'.login].status = "pending"

\* C15, afterwards: while the page lives the promise stays in the slot and is
\* never settled, and every login call returns it and starts nothing.
C15_Later ==
  (RedirectPending /\ ~Reloaded) =>
     /\ promises'.login = promises.login
     /\ handles'[promises.login].kind = "redirect"
     /\ handles'[promises.login].status = "pending"
     /\ \A i \in 1..Len(obs'.settled) : obs'.settled[i].h # promises.login
     /\ Called(LoginCalls) =>
          /\ obs'.ret = promises.login
          /\ obs'.opened = <<>>
          /\ obs'.navigated = 0
          /\ transports' = transports

\* C15: after loginWithRedirect() is called while login is idle, exactly one
\* navigation is performed and the login category stays pending for the rest
\* of the page's life: its promise is never settled, and every later login
\* call returns it without opening a transport or navigating again.
C15_RedirectLoginStaysPending == [][C15_Call /\ C15_Later]_vars

\* A silent login asked for after a login by redirect was handed the promise
\* of the redirect.
C15_Witness ==
  /\ obs.op = "loginWithIframe"
  /\ RedirectPending
  /\ obs.ret = promises.login
  /\ obs.opened = <<>>
  /\ obs.navigated = 0
  /\ page = "navigating"

(* ---------------------------------------------------------------- logout *)
\* C16: while a logout is pending, every further logout request through any
\* transport is coalesced with it: it returns the pending promise and starts
\* no second deauthorization flow, neither a transport nor a navigation.
C16_Step ==
  (promises.logout # NULL /\ Called(LogoutCalls)) =>
     /\ obs'.ret = promises.logout
     /\ obs'.opened = <<>>
     /\ obs'.navigated = 0
     /\ transports' = transports

C16_LogoutCoalesced == [][C16_Step]_vars

(* ------------------------------------------------------------ single use *)
\* C17: once a response has been validated in a login, refresh or renewal
\* flow, with or without success, the localState and the nonce it was
\* validated against are no longer the ones stored: they have been cleared or
\* replaced, so the same state and nonce cannot pass validation again.
C17_SingleUse ==
  /\ obs.used.state \in Uuids => profile.localState # obs.used.state
  /\ obs.used.nonce \in Uuids => profile.nonce # obs.used.nonce

(* ------------------------------------------------- flows nobody asked for *)
\* C18: a flow the controller starts by itself (the refresh of the refresh
\* timer, the eager refresh of a visibility change, the token retrieval of a
\* route change) never fails into a rejection that nothing handles.
C18_NoUnhandledRejection == obs.uncaught # "unhandledrejection"

(* ------------------------------------------------- login that cannot start *)
\* retrieveAccessToken() is called when a login is needed, none is pending
\* and the login type is false or not a known one.
CannotLogin ==
  /\ Called({"retrieveAccessToken"})
  /\ promises.token = NULL
  /\ promises.login = NULL
  /\ LoginNeeded(St)
  /\ config.loginType \in {"false", "invalid"}

\* No flow is started and the token slot stays empty.
NothingStarted ==
  /\ obs'.opened = <<>>
  /\ obs'.navigated = 0
  /\ transports' = transports
  /\ promises' = promises

\* C19, as amended: the call returns a promise rejected with a
\* ReferenceError and throws nothing; it opens no transport and leaves the
\* token-retrieval category idle.
C19_Step ==
  CannotLogin =>
     /\ obs'.retErr = "ReferenceError"
     /\ obs'.uncaught = "none"
     /\ NothingStarted

C19_ConfigurationErrorRejects == [][C19_Step]_vars

\* C19: retrieveAccessToken() called with automatic login disabled or with
\* an invalid loginType, when a login is required and none is pending, throws
\* a configuration error synchronously at that call, opens no transport and
\* leaves the token-retrieval category idle.
C19_Thrown ==
  CannotLogin =>
     /\ obs'.uncaught = "ReferenceError"
     /\ NothingStarted

C19_ConfigurationErrorThrown == [][C19_Thrown]_vars

\* A retrieval was refused with automatic login disabled.
C19_Witness ==
  /\ obs.op = "retrieveAccessToken"
  /\ obs.retErr = "ReferenceError"
  /\ obs.uncaught = "none"
  /\ config.loginType = "false"
  /\ promises.token = NULL
  /\ calls = 2

(* ------------------------------------------------------------ visibility *)
\* The step is a visibility change, to hidden or to visible.
VisibilityChange(to) ==
  calls' = calls + 1 /\ obs'.op = "visibilitychange" /\ hidden' = to

\* The eager refresh h, started when the page was hidden, succeeds in the step.
EagerRefreshSucceeds(h) ==
  /\ handles[h].status = "pending"
  /\ VisibilityRefresh(h)
  /\ \E i \in 1..Len(obs'.settled) :
        obs'.settled[i].h = h /\ obs'.settled[i].status = "resolved"

\* C21, the start: hiding the page with an unexpired id token and autoRefresh
\* leaves a refresh pending that the page waits for, and opens at most one
\* iframe for it: exactly one unless a login or a refresh is pending already.
C21_Start ==
  (VisibilityChange(TRUE) /\ ~idTokenExpired(profile) /\ config.autoRefresh) =>
     /\ promises'.refresh # NULL
     /\ \E i \in 1..Len(handles'[promises'.refresh].waiters) :
           handles'[promises'.refresh].waiters[i].type = "visThen"
     /\ obs'.opened = IF promises.refresh = NULL /\ promises.login = NULL
                        THEN <<"login">> ELSE <<>>
     /\ obs'.navigated = 0

\* C21, the pause: when the eager refresh succeeds the refresh timer is
\* cancelled.
C21_RefreshPaused ==
  \A h \in Pool("refresh") :
    EagerRefreshSucceeds(h) =>
       Armed(timers', "refresh") = {} /\ timeouts'.refresh = NULL

\* C21, while hidden: no refresh timer is armed again before the page is
\* visible again, unless a login or a refresh succeeds.
C21_StaysPaused ==
  (/\ hidden /\ hidden'
   /\ Armed(timers, "refresh") = {}
   /\ ~Renewed(obs'.events)
   /\ ~Reloaded) =>
     Armed(timers', "refresh") = {}

\* C21 (amended): when the page becomes hidden with an unexpired id token and
\* autoRefresh, at most one eager refresh is started, and once it has
\* succeeded the refresh timer is not armed until the page is visible again
\* or a login or refresh succeeds; the expired timer armed by the refresh
\* stays armed.
C21_Step ==
  /\ C21_Start
  /\ C21_RefreshPaused
  /\ C21_StaysPaused
  /\ \A h \in Pool("refresh") :
       EagerRefreshSucceeds(h) => Armed(timers', "expired") # {}

C21_HiddenPausesRefresh == [][C21_Step]_vars

\* C21: when the page becomes hidden while the id token is unexpired and
\* autoRefresh is enabled, one eager refresh is started, and after it succeeds
\* no refresh timer and no expired timer remains armed.
C21_AllPaused ==
  \A h \in Pool("refresh") :
    EagerRefreshSucceeds(h) =>
       Armed(timers', "refresh") = {} /\ Armed(timers', "expired") = {}

C21_HiddenPausesAllTimers == [][C21_Start /\ C21_AllPaused]_vars

\* The eager refresh of a hidden page has succeeded: the refresh timeout was
\* dropped and the expired timer is armed.
C21_Witness ==
  /\ hidden
  /\ \E x \in SettledNow : Cat(x.h) = "refresh" /\ x.status = "resolved"
  /\ timeouts.refresh = NULL
  /\ Armed(timers, "refresh") = {}
  /\ Armed(timers, "expired") # {}

\* The eager refresh h, started when the page was hidden, settles in the step.
EagerRefreshSettles(h) ==
  /\ handles[h].status = "pending"
  /\ VisibilityRefresh(h)
  /\ \E i \in 1..Len(obs'.settled) : obs'.settled[i].h = h

\* C22: however the visibility changes interleave with the settling of the
\* eager refresh, a page that is visible, with an unexpired id token,
\* autoRefresh and no refresh in flight, has its refresh timer armed: when the
\* page becomes visible, and when the eager refresh settles on a page that is
\* visible again.
C22_Step ==
  /\ (VisibilityChange(FALSE) /\ ~idTokenExpired(profile) /\ config.autoRefresh) =>
        Armed(timers', "refresh") # {}
  /\ \A h \in Pool("refresh") :
       (/\ EagerRefreshSettles(h)
        /\ ~hidden'
        /\ ~idTokenExpired(profile')
        /\ config.autoRefresh
        /\ promises'.refresh = NULL) =>
          Armed(timers', "refresh") # {}

C22_VisibleKeepsRefreshTimer == [][C22_Step]_vars

(* ------------------------------------------------------------------- C23 *)
\* The silent login t belongs to a refresh, and the step brings back its
\* answer: the state of its request, an access token and no id token.
AccessTokenOnlyRenewal(t) ==
  /\ t.purpose = "login" /\ t.kind = "iframe"
  /\ \E i \in 1..Len(handles[t.owner].waiters) :
        handles[t.owner].waiters[i].type = "refresh"
  /\ LoginTransports = {t}
  /\ t.reqState = profile.localState
  /\ ~profile.error
  /\ obs'.op = "transportResolved"
  /\ LoginTransports' = {}
  /\ obs'.resp = Response(t.reqState, NoToken, TRUE, FALSE, FALSE)

\* The refresh promise resolves in the step, and a refresh event without an
\* error is fired.
RefreshSucceeds ==
  /\ \E i \in 1..Len(obs'.settled) :
        Cat(obs'.settled[i].h) = "refresh" /\ obs'.settled[i].status = "resolved"
  /\ \E i \in 1..Len(obs'.events) :
        obs'.events[i].kind = "refresh" /\ obs'.events[i].error = "none"

C23_Step == \A t \in transports : AccessTokenOnlyRenewal(t) => RefreshSucceeds

\* C23: a renewal response with the state of its request that carries an
\* access token and no id token makes refreshToken() resolve and fire the
\* refresh event without an error: only the tolerant validation is applied.
C23_TolerantRenewal == [][C23_Step]_vars

(* ------------------------------------------------------------------- C24 *)
\* The credentials a profile holds: the id token (its claims other than the
\* nonce, which is only ever compared), the access token with its expiration
\* and the authorization code.
Credentials(p) ==
  [idToken |-> [p.idToken EXCEPT !.nonce = 0], accessToken |-> p.accessToken,
   expiration |-> p.expiration, code |-> p.code]

\* A step that starts a renewal attempt: refreshToken() is called by the
\* application, by the refresh timer or by the page becoming hidden, or
\* loginWithIframe(true) is called.
RenewalStarts ==
  /\ LoginTransports = {}
  /\ \E t \in LoginTransports' : t.kind = "iframe" /\ t.timed
  /\ obs'.op \in {"refreshToken", "refreshTimeout", "visibilitychange",
                  "loginWithIframe"}

\* A step in which the renewal iframe fails: a transport error or its timeout.
RenewalFails ==
  /\ \E t \in LoginTransports : t.kind = "iframe" /\ t.timed
  /\ LoginTransports' = {}
  /\ obs'.op = "transportRejected"

C24_Step ==
  /\ RenewalStarts => /\ Credentials(profile') = Credentials(profile)
                      /\ ~profile'.error
  /\ RenewalFails => Credentials(profile') = Credentials(profile)

\* C24: a renewal attempt clears the stored errors only, and a renewal that
\* fails by a transport error or a timeout leaves the id token, the access
\* token and the authorization code as they were.
C24_RenewalKeepsCredentials == [][C24_Step]_vars

\* A renewal has failed on a profile that still holds its id token.
C24_Witness ==
  /\ obs.op = "transportRejected"
  /\ \E x \in SettledNow : Cat(x.h) = "refresh" /\ x.status = "rejected"
  /\ profile.idToken.present

(* ------------------------------------------------------------------- C25 *)
\* The refresh timeout has run with autoRefresh disabled: the refresh event
\* was fired as a notice, with no error and no data.
RefreshNotice ==
  /\ obs.op = "refreshTimeout"
  /\ ~config.autoRefresh
  /\ \E e \in EventsNow : e.kind = "refresh" /\ e.error = "none" /\ e.data = "none"

\* The refresh timeout runs with autoRefresh disabled: no renewal is started
\* and the refresh event is fired once, with no error and no data.
C25_Step ==
  (obs'.op = "refreshTimeout" /\ ~config.autoRefresh) =>
    /\ obs'.opened = <<>>
    /\ promises'.refresh = promises.refresh
    /\ Len(SelectSeq(obs'.events, LAMBDA e : e.kind = "refresh")) = 1
    /\ \A i \in 1..Len(obs'.events) :
         obs'.events[i].kind = "refresh" =>
           obs'.events[i].error = "none" /\ obs'.events[i].data = "none"

C25_NoticeOnly == [][C25_Step]_vars

\* C25: with autoRefresh disabled the refresh notices of one token lifetime
\* are finitely many: after a notice, unless the application intervenes, the
\* scheduler comes to rest with no refresh timeout armed.
C25_NoticeQuiesces ==
  RefreshNotice ~> (Intervened \/ Armed(timers, "refresh") = {})

(* ------------------------------------------------------------------- C26 *)
\* The transports that wait for an authorization response.
Requests(ts) == {t \in ts : t.purpose # "logout"}

\* The only request in flight is t, and the step brings back its response,
\* with the state of the request in it.
Answered(t) ==
  /\ Requests(transports) = {t}
  /\ Requests(transports') = {}
  /\ obs'.op = "transportResolved"
  /\ obs'.resp.state = t.reqState

C26_Step ==
  \A t \in transports :
    Answered(t) => /\ profile.localState = t.reqState
                   /\ profile.nonce = t.reqNonce

\* C26: from the request of a flow to the validation of its response the
\* stored localState and nonce are the ones of that request: the response
\* is validated against the values its own request was sent with.
C26_OwnRequestValues == [][C26_Step]_vars

(* ------------------------------------------------------------------- C27 *)
\* The application of a logged-in page does nothing but log out: what renews
\* the session is the controller's own refresh timeout.
LogoutNext ==
  \/ CallLogoutWithIframe
  \/ RefreshTimerFires
  \/ ExpiredTimerFires
  \/ ClockTicks
  \/ TransportResolves
  \/ TransportRejects

LogoutSpec == SessionInit /\ [][LogoutNext]_vars

\* The logout the application has requested settles in this step.
LogoutSettled == \E x \in SettledNow : Cat(x.h) = "logout"

HoldsTokens(p) == p.idToken.present \/ p.accessToken \/ p.code

\* C27: when a logout settles, and the application has requested no login
\* and no token since it called logout, the profile holds no token: neither
\* a renewal in flight nor the refresh timeout has brought one back.
C27_LoggedOutHoldsNoTokens == LogoutSettled => ~HoldsTokens(profile)

(* ------------------------------------------------------------------- C28 *)
\* The login events fired in the step.
LoginEvents == SelectSeq(obs'.events, LAMBDA e : e.kind = "login")

\* The login promise h, of a login with events, settles in the step: one
\* login event is fired, without an error exactly if the promise resolves.
C28_Settled ==
  \A h \in Pool("login") :
    \A i \in 1..Len(obs'.settled) :
      (/\ handles[h].status = "pending"
       /\ handles[h].events
       /\ obs'.settled[i].h = h)
      => /\ Len(LoginEvents) = 1
         /\ LoginEvents[1].error = "none" <=> obs'.settled[i].status = "resolved"

\* loginWithPopup() or loginWithNewTab() returns a promise whose settling
\* fires the login event, also when it is the promise of a pending login.
C28_Coalesced ==
  (Called({"loginWithPopup", "loginWithNewTab"}) /\ obs'.ret # NULL)
    => handles'[obs'.ret].events

C28_Step == C28_Settled /\ C28_Coalesced

\* C28: every login with events whose promise settles is matched by exactly
\* one login event, without an error exactly if the promise resolves; also
\* when the call is coalesced with a silent refresh in flight and when a
\* login listener throws.
C28_OneLoginEvent == [][C28_Step]_vars
====
